---------------------------- MODULE Spec2Model ----------------------------
(***************************************************************************)
(* nrf-rpc: client side of the nRF RPC protocol.                           *)
(*                                                                         *)
(* The model follows the crate: packet.rs (PacketBuilder, SliceWriter),    *)
(* ble.rs (Ble, the command encoders, the scratchpad calculator) and       *)
(* lib.rs (RpcClient: handshake and send_command).  Bytes are naturals in  *)
(* 0..255, a packet is a sequence of bytes, and every await on the         *)
(* transport is one step of the state machine whose outcome (success with  *)
(* some bytes, or an error) is chosen by the environment.                  *)
(***************************************************************************)
EXTENDS Integers, Sequences, FiniteSets, TLC

(***************************************************************************)
(* Bounds of the model                                                     *)
(***************************************************************************)
\* number of command calls made on one constructed client
MaxCalls == 2
\* number of command calls in the runs checked for termination
MaxFairCalls == 1
\* number of value-appending operations applied to one builder on its own
MaxOps == 2
\* number of items in each list of an advertise-start input encoded on its own
MaxItems == 2
\* data length of the advertising item used to overflow the 256-byte builder
BigDataLen == 250

(***************************************************************************)
(* Program constants                                                       *)
(***************************************************************************)
PT_RESPONSE == 1
PT_INIT == 4
PT_COMMAND == 128
UNKNOWN_ID == 255
BT_ENABLE_RPC_CMD == 0
BT_LE_ADV_START_RPC_CMD == 4
BT_DATA_FLAGS == 1
BT_DATA_NAME_COMPLETE == 9
BT_DATA_SIZE == 8
BT_ADDR_LE_SIZE == 7
INIT_CAPACITY == 64
ENABLE_CAPACITY == 64
ADV_CAPACITY == 256
RESPONSE_BUF_LEN == 256

Byte == 0..255

\* "bt_rpc" and "rpc_utils" as ASCII bytes
BT_RPC_NAME == <<98, 116, 95, 114, 112, 99>>
RPC_UTILS_NAME == <<114, 112, 99, 95, 117, 116, 105, 108, 115>>

(***************************************************************************)
(* Byte arithmetic                                                         *)
(***************************************************************************)
\* x | 0x80 on a u8
Or80(x) == IF x >= 128 THEN x ELSE x + 128

\* x & 0x7F on a u8
And7F(x) == x % 128

\* rounding up to the next multiple of 4 even from a multiple of 4
align_to_4_next(size) == ((size + 4) \div 4) * 4

\* (size + 3) & !3
align_to_4(size) == ((size + 3) \div 4) * 4

Zeros(n) == [i \in 1..n |-> 0]

\* big-endian bytes of v, n of them
RECURSIVE BeBytes(_, _)
BeBytes(v, n) == IF n = 0 THEN <<>> ELSE Append(BeBytes(v \div 256, n - 1), v % 256)

\* value of a big-endian byte sequence
RECURSIVE BeValue(_)
BeValue(s) ==
    IF s = <<>> THEN 0 ELSE BeValue(SubSeq(s, 1, Len(s) - 1)) * 256 + s[Len(s)]

(***************************************************************************)
(* SliceWriter: a writer over buffer[pos..] that tracks its own position    *)
(***************************************************************************)
SliceWriter_new(slice) == [slice |-> slice, pos |-> 0, err |-> "None"]

\* write_all copying the bytes that fit and reporting success
write_all_truncating(w, buf) ==
    IF w.err # "None" THEN w
    ELSE LET room == Len(w.slice) - w.pos
             n == IF Len(buf) <= room THEN Len(buf) ELSE room
         IN [w EXCEPT
               !.slice = SubSeq(w.slice, 1, w.pos) \o SubSeq(buf, 1, n)
                         \o SubSeq(w.slice, w.pos + n + 1, Len(w.slice)),
               !.pos = w.pos + n]

\* write_all: all of buf or nothing; BufferTooSmall when it does not fit
write_all(w, buf) ==
    IF w.err # "None" THEN w
    ELSE IF w.pos + Len(buf) > Len(w.slice)
    THEN [w EXCEPT !.err = "BufferTooSmall"]
    ELSE [w EXCEPT
            !.slice = SubSeq(w.slice, 1, w.pos) \o buf
                      \o SubSeq(w.slice, w.pos + Len(buf) + 1, Len(w.slice)),
            !.pos = w.pos + Len(buf)]

\* the encoder hands the writer one chunk after the other, stopping at the
\* first chunk the writer refuses
RECURSIVE write_chunks(_, _)
write_chunks(w, chunks) ==
    IF chunks = <<>> THEN w
    ELSE write_chunks(write_all(w, Head(chunks)), Tail(chunks))

(***************************************************************************)
(* The encoder's items, as the chunks it passes to write_all               *)
(***************************************************************************)
\* the head with the one-byte form taken up to 24 instead of 23
HeadChunks_upto24(major, v) ==
    IF v <= 24 THEN << <<major * 32 + v>> >>
    ELSE IF v < 256 THEN << <<major * 32 + 24, v>> >>
    ELSE IF v < 65536 THEN << <<major * 32 + 25>>, BeBytes(v, 2) >>
    ELSE IF v \div 65536 < 65536 THEN << <<major * 32 + 26>>, BeBytes(v, 4) >>
    ELSE << <<major * 32 + 27>>, BeBytes(v, 8) >>

\* type byte plus argument of major type `major` (0 uint, 1 negative int,
\* 2 byte string, 3 text string), shortest form
HeadChunks(major, v) ==
    IF v < 24 THEN << <<major * 32 + v>> >>
    ELSE IF v < 256 THEN << <<major * 32 + 24, v>> >>
    ELSE IF v < 65536 THEN << <<major * 32 + 25>>, BeBytes(v, 2) >>
    ELSE IF v \div 65536 < 65536 THEN << <<major * 32 + 26>>, BeBytes(v, 4) >>
    ELSE << <<major * 32 + 27>>, BeBytes(v, 8) >>

U64Chunks(value) == HeadChunks(0, value)

I64Chunks(value) ==
    IF value >= 0 THEN HeadChunks(0, value) ELSE HeadChunks(1, -1 - value)

BytesChunks(bytes) == HeadChunks(2, Len(bytes)) \o << bytes >>

StrChunks(s) == HeadChunks(3, Len(s)) \o << s >>

NullChunks == << <<246>> >>

(***************************************************************************)
(* PacketBuilder<N>: buffer of N bytes, pos, and the error of the first    *)
(* failed step ("None" while every step succeeded).  A failed step yields  *)
(* no builder in the program; here the error is carried along and every    *)
(* later step passes it through, as `?` does.                              *)
(***************************************************************************)
PacketBuilder_new(N) == [buffer |-> Zeros(N), pos |-> 0, err |-> "None"]

\* the conversion of the encoder's error into CborError
FromEncodeError(e) == "EncodingError"

\* the common body with the writer placed over the whole buffer, not
\* buffer[pos..]
cbor_item_from_start(b, chunks) ==
    IF b.err # "None" THEN b
    ELSE LET writer == write_chunks(SliceWriter_new(b.buffer), chunks)
         IN IF writer.err # "None"
            THEN [b EXCEPT !.err = FromEncodeError(writer.err)]
            ELSE [b EXCEPT
                    !.buffer = writer.slice,
                    !.pos = b.pos + writer.pos]

\* the common body of cbor_uint, cbor_int, cbor_bytes, cbor_str, cbor_null
cbor_item(b, chunks) ==
    IF b.err # "None" THEN b
    ELSE LET N == Len(b.buffer)
             writer == write_chunks(
                         SliceWriter_new(SubSeq(b.buffer, b.pos + 1, N)), chunks)
         IN IF writer.err # "None"
            THEN [b EXCEPT !.err = FromEncodeError(writer.err)]
            ELSE [b EXCEPT
                    !.buffer = SubSeq(b.buffer, 1, b.pos) \o writer.slice,
                    !.pos = b.pos + writer.pos]

cbor_uint(b, value) == cbor_item(b, U64Chunks(value))
cbor_int(b, value) == cbor_item(b, I64Chunks(value))
cbor_bytes(b, bytes) == cbor_item(b, BytesChunks(bytes))
cbor_str(b, s) == cbor_item(b, StrChunks(s))
cbor_null(b) == cbor_item(b, NullChunks)

\* &buffer[..pos]
as_slice(b) == SubSeq(b.buffer, 1, b.pos)

\* buffer with bytes written at 0-based offset `at`
SetBytes(buffer, at, bytes) ==
    SubSeq(buffer, 1, at) \o bytes
    \o SubSeq(buffer, at + Len(bytes) + 1, Len(buffer))

\* init writing a NUL terminator behind the group name
PacketBuilder_init_nul(b, src_group_id, group_name) ==
    IF Len(b.buffer) < 6 \/ 7 + Len(group_name) > Len(b.buffer)
    THEN [b EXCEPT !.err = "Panic"]
    ELSE [b EXCEPT
            !.buffer = SetBytes(b.buffer, 0,
                          <<PT_INIT, 0, 255, src_group_id, 255, 0>>
                          \o group_name \o <<0>>),
            !.pos = 7 + Len(group_name)]

\* PacketBuilder::init; indexing past the buffer panics
PacketBuilder_init(b, src_group_id, group_name) ==
    IF Len(b.buffer) < 6 \/ 6 + Len(group_name) > Len(b.buffer)
    THEN [b EXCEPT !.err = "Panic"]
    ELSE [b EXCEPT
            !.buffer = SetBytes(b.buffer, 0,
                          <<PT_INIT, 0, 255, src_group_id, 255, 0>> \o group_name),
            !.pos = 6 + Len(group_name)]

\* command with the two group ids in each other's place
PacketBuilder_command_swapped(b, src_ctx_id, cmd_id, dst_ctx_id, src_grp_id, dst_grp_id) ==
    IF Len(b.buffer) < 5
    THEN [b EXCEPT !.err = "Panic"]
    ELSE [b EXCEPT
            !.buffer = SetBytes(b.buffer, 0,
                          <<Or80(src_ctx_id), cmd_id, dst_ctx_id, dst_grp_id, src_grp_id>>),
            !.pos = 5]

\* PacketBuilder::command
PacketBuilder_command(b, src_ctx_id, cmd_id, dst_ctx_id, src_grp_id, dst_grp_id) ==
    IF Len(b.buffer) < 5
    THEN [b EXCEPT !.err = "Panic"]
    ELSE [b EXCEPT
            !.buffer = SetBytes(b.buffer, 0,
                          <<Or80(src_ctx_id), cmd_id, dst_ctx_id, src_grp_id, dst_grp_id>>),
            !.pos = 5]

\* Header Codec decode: InvalidResponse below 5 bytes; otherwise the five
\* header fields, the source context id being the low 7 bits of byte 0 of
\* a Command packet
decode_header(p) ==
    IF Len(p) < 5 THEN [err |-> "InvalidResponse"]
    ELSE [err |-> "None",
          is_command |-> p[1] >= PT_COMMAND,
          src_ctx_id |-> IF p[1] >= PT_COMMAND THEN And7F(p[1]) ELSE 0,
          cmd_id |-> p[2],
          dst_ctx_id |-> p[3],
          src_grp_id |-> p[4],
          dst_grp_id |-> p[5]]

(***************************************************************************)
(* ble.rs: the command encoders                                            *)
(***************************************************************************)
RECURSIVE SumScratch(_)
SumScratch(items) ==
    IF items = <<>> THEN 0
    ELSE align_to_4(BT_DATA_SIZE) + align_to_4(Len(Head(items).data))
         + SumScratch(Tail(items))

calculate_scratchpad_size(param, ad, sd) ==
    SumScratch(ad) + SumScratch(sd)
    + (IF param.peer.is_some THEN align_to_4(BT_ADDR_LE_SIZE) ELSE 0)

\* an item whose data is copied without the byte-string head
encode_bt_data_raw(builder, data) ==
    cbor_item(
        cbor_uint(cbor_uint(builder, data.data_type), Len(data.data)),
        << data.data >>)

\* one advertising item: type, data length, data as a byte string
encode_bt_data(builder, data) ==
    cbor_bytes(
        cbor_uint(cbor_uint(builder, data.data_type), Len(data.data)),
        data.data)

RECURSIVE encode_items(_, _)
encode_items(builder, items) ==
    IF items = <<>> THEN builder
    ELSE encode_items(encode_bt_data(builder, Head(items)), Tail(items))

\* the encoder with the scan-response list written before the advertising list
encode_bt_le_adv_start_sd_first(N, src_ctx_id, src_grp_id, dst_grp_id, param, ad, sd) ==
    LET scratchpad_size == calculate_scratchpad_size(param, ad, sd)
        b0 == cbor_uint(
                PacketBuilder_command(PacketBuilder_new(N), src_ctx_id,
                    BT_LE_ADV_START_RPC_CMD, 255, src_grp_id, dst_grp_id),
                scratchpad_size)
        b1 == cbor_uint(cbor_uint(cbor_uint(cbor_uint(cbor_uint(cbor_uint(b0,
                param.id), param.sid), param.secondary_max_skip),
                param.options), param.interval_min), param.interval_max)
        b2 == cbor_null(b1)
        b3 == encode_items(cbor_uint(b2, Len(sd)), sd)
        b4 == encode_items(cbor_uint(b3, Len(ad)), ad)
    IN cbor_null(b4)

\* encode_bt_le_adv_start::<N>
encode_bt_le_adv_start(N, src_ctx_id, src_grp_id, dst_grp_id, param, ad, sd) ==
    LET scratchpad_size == calculate_scratchpad_size(param, ad, sd)
        b0 == cbor_uint(
                PacketBuilder_command(PacketBuilder_new(N), src_ctx_id,
                    BT_LE_ADV_START_RPC_CMD, 255, src_grp_id, dst_grp_id),
                scratchpad_size)
        b1 == cbor_uint(cbor_uint(cbor_uint(cbor_uint(cbor_uint(cbor_uint(b0,
                param.id), param.sid), param.secondary_max_skip),
                param.options), param.interval_min), param.interval_max)
        \* peer address: null is written whatever param.peer holds
        b2 == cbor_null(b1)
        b3 == encode_items(cbor_uint(b2, Len(ad)), ad)
        b4 == encode_items(cbor_uint(b3, Len(sd)), sd)
    IN cbor_null(b4)

\* bt_enable with the repeated argument 28 encoded once
bt_enable_packet_single28(context_id_, group_id) ==
    cbor_null(cbor_uint(
        PacketBuilder_command(PacketBuilder_new(ENABLE_CAPACITY), context_id_,
            BT_ENABLE_RPC_CMD, 255, group_id, group_id),
        28))

\* bt_enable with the context id passed as destination context too
bt_enable_packet_dstctx(context_id_, group_id) ==
    cbor_null(cbor_uint(cbor_uint(
        PacketBuilder_command(PacketBuilder_new(ENABLE_CAPACITY), context_id_,
            BT_ENABLE_RPC_CMD, context_id_, group_id, group_id),
        28), 28))

\* the packet Ble::bt_enable builds
bt_enable_packet(context_id_, group_id) ==
    cbor_null(cbor_uint(cbor_uint(
        PacketBuilder_command(PacketBuilder_new(ENABLE_CAPACITY), context_id_,
            BT_ENABLE_RPC_CMD, 255, group_id, group_id),
        28), 28))

\* the packet Ble::bt_le_adv_start builds
bt_le_adv_start_packet(context_id_, group_id, in) ==
    encode_bt_le_adv_start(ADV_CAPACITY, context_id_, group_id, group_id,
                           in.param, in.ad, in.sd)

(***************************************************************************)
(* Inputs of bt_le_adv_start                                               *)
(***************************************************************************)
NoPeer == [is_some |-> FALSE, addr_type |-> 0, addr |-> Zeros(6)]
SomePeer == [is_some |-> TRUE, addr_type |-> 1, addr |-> <<1, 2, 3, 4, 5, 6>>]

TraceParam ==
    [id |-> 0, sid |-> 0, secondary_max_skip |-> 0, options |-> 3,
     interval_min |-> 160, interval_max |-> 240, peer |-> NoPeer]

\* b"Nordic_PS"
NordicPS == <<78, 111, 114, 100, 105, 99, 95, 80, 83>>

\* the call of the recorded UART trace
TraceInput ==
    [param |-> TraceParam,
     ad |-> << [data_type |-> BT_DATA_FLAGS, data |-> <<6>>] >>,
     sd |-> << [data_type |-> BT_DATA_NAME_COMPLETE, data |-> NordicPS] >>]

\* a call whose items do not fit the 256-byte builder
BigInput ==
    [param |-> TraceParam,
     ad |-> << [data_type |-> BT_DATA_FLAGS, data |-> [i \in 1..BigDataLen |-> 170]] >>,
     sd |-> << [data_type |-> BT_DATA_NAME_COMPLETE, data |-> NordicPS] >>]

AdvInputs == {TraceInput, BigInput}

(***************************************************************************)
(* lib.rs: results                                                         *)
(***************************************************************************)
Ok(v) == [kind |-> "Ok", val |-> v]
Err(e) == [kind |-> e, val |-> 0]
Pending == [kind |-> "Pending", val |-> 0]

\* whether the big-endian bytes s hold a value above i32::MAX (decided on
\* the bytes: the value itself may not fit the checker's integers)
AboveI32Max(s) ==
    /\ Len(s) >= 4
    /\ \/ \E i \in 1..(Len(s) - 4) : s[i] # 0
       \/ s[Len(s) - 3] >= 128

\* Decoder::i32 on the payload: the first item must be an integer (major
\* type 0 or 1, any argument width) whose value fits an i32
decode_i32(payload) ==
    IF payload = <<>> THEN Err("InvalidResponse")
    ELSE LET b == payload[1]
             major == b \div 32
             info == b % 32
             width == CASE info = 24 -> 1 [] info = 25 -> 2
                        [] info = 26 -> 4 [] info = 27 -> 8 [] OTHER -> 0
         IN IF major > 1 \/ info > 27 \/ Len(payload) < 1 + width
            THEN Err("InvalidResponse")
            ELSE LET arg == SubSeq(payload, 2, 1 + width)
                 IN IF AboveI32Max(arg) THEN Err("InvalidResponse")
                    ELSE LET n == IF info < 24 THEN info ELSE BeValue(arg)
                         IN IF major = 0 THEN Ok(n) ELSE Ok(-1 - n)

\* let mut response_buf = [0u8; 256]
ZeroResponseBuf == Zeros(RESPONSE_BUF_LEN)

\* RpcClient::decode_i32_response
decode_i32_response(payload) == decode_i32(payload)

\* the transport's read into a buffer: the first Len(reply) bytes are
\* replaced, the rest keeps what the buffer held
ReadInto(buf, reply) == reply \o SubSeq(buf, Len(reply) + 1, Len(buf))

\* send_command without the check of the packet type
send_command_response_untyped(len, response_buf) ==
    IF len < 5
    THEN [result |-> Err("InvalidResponse"), decoded |-> FALSE]
    ELSE [result |-> decode_i32_response(SubSeq(response_buf, 6, len)),
          decoded |-> TRUE]

\* send_command decoding the whole buffer behind the header, not len bytes
send_command_response_wholebuf(len, response_buf) ==
    IF len < 5
    THEN [result |-> Err("InvalidResponse"), decoded |-> FALSE]
    ELSE IF And7F(response_buf[1]) # PT_RESPONSE
    THEN [result |-> Err("InvalidResponse"), decoded |-> FALSE]
    ELSE [result |-> decode_i32_response(
                        SubSeq(response_buf, 6, Len(response_buf))),
          decoded |-> TRUE]

\* send_command accepting a reply only for the context id it sent
send_command_response_ctxchecked(len, response_buf) ==
    IF len < 5
    THEN [result |-> Err("InvalidResponse"), decoded |-> FALSE]
    ELSE IF And7F(response_buf[1]) # PT_RESPONSE \/ response_buf[3] # 0
    THEN [result |-> Err("InvalidResponse"), decoded |-> FALSE]
    ELSE [result |-> decode_i32_response(SubSeq(response_buf, 6, len)),
          decoded |-> TRUE]

\* send_command after its read returned len bytes in response_buf: the
\* call's result and whether the payload was handed to the decoder
send_command_response(len, response_buf) ==
    IF len < 5
    THEN [result |-> Err("InvalidResponse"), decoded |-> FALSE]
    ELSE IF And7F(response_buf[1]) # PT_RESPONSE
    THEN [result |-> Err("InvalidResponse"), decoded |-> FALSE]
    ELSE [result |-> decode_i32_response(SubSeq(response_buf, 6, len)),
          decoded |-> TRUE]

\* init without the length check of a handshake read
init_group_id_nolen(len, response_buf, old) ==
    IF response_buf[1] = PT_INIT THEN response_buf[5] ELSE old

\* init taking the group id from byte 3 of a handshake read
init_group_id_byte3(len, response_buf, old) ==
    IF len >= 5 /\ response_buf[1] = PT_INIT THEN response_buf[4] ELSE old

\* init after one of its reads returned len bytes in response_buf: the
\* group id the read leaves in the field that held `old`
init_group_id(len, response_buf, old) ==
    IF len >= 5 /\ response_buf[1] = PT_INIT THEN response_buf[5] ELSE old

(***************************************************************************)
(* What the peer may deliver on one read                                   *)
(***************************************************************************)
Replies ==
    { <<>>,                          \* no byte at all
      <<4, 0, 255, 0, 0, 0>>,        \* Init, byte 4 = 0x00
      <<4, 0, 255, 5, 1, 0>>,        \* Init, byte 3 = 0x05, byte 4 = 0x01
      <<4, 0, 255, 7>>,              \* Init tag, 4 bytes only
      <<132, 0, 255, 2, 2>>,         \* 0x84: Init tag with bit 7 set
      <<1, 0, 0, 3, 3, 0>>,          \* Response, value 0
      <<129, 7, 5, 2, 9, 32>>,       \* 0x81 Response, other header bytes, value -1
      <<1, 0, 0, 0>>,                \* Response tag, 4 bytes only
      <<1, 0, 0, 0, 0>>,             \* Response, empty payload
      <<3, 0, 0, 0, 0, 1, 0, 0, 0>>  \* error report
    }

(***************************************************************************)
(* State                                                                   *)
(***************************************************************************)
VARIABLES
    pc,                  \* where the client's one thread of control is
    bt_rpc_group_id,     \* RpcClient.bt_rpc_group_id
    rpc_utils_group_id,  \* RpcClient.rpc_utils_group_id
    context_id,          \* RpcClient.context_id
    packet,              \* the packet the running call hands to send_packet
    trace,               \* every transport operation so far, in order
    new_result,          \* what Ble::new returned ("Pending" until it returns)
    result,              \* what the last command call returned
    calls,               \* command calls started on the client
    call_writes,         \* transport writes attempted by the last call
    call_reads,          \* transport reads attempted by the last call
    decoded,             \* the last call handed a payload to the decoder
    builder,             \* a PacketBuilder under construction on its own
    prev_builder,        \* that builder before its last operation
    last_op,             \* the last operation applied to that builder
    eval                 \* one application of an encoder or of the decoder

vars == <<pc, bt_rpc_group_id, rpc_utils_group_id, context_id, packet, trace,
          new_result, result, calls, call_writes, call_reads, decoded,
          builder, prev_builder, last_op, eval>>

client == <<bt_rpc_group_id, rpc_utils_group_id, context_id>>
call_state == <<calls, call_writes, call_reads, decoded, result>>
codec == <<builder, prev_builder, last_op, eval>>

\* no builder under construction, nothing evaluated
NoOp == [name |-> "none", arg |-> 0, n |-> 0]
NoEval == [kind |-> "none"]
CodecIdle ==
    /\ builder = PacketBuilder_new(0)
    /\ prev_builder = PacketBuilder_new(0)
    /\ last_op = NoOp
    /\ eval = NoEval

Write(data, ok) == [op |-> "write", ok |-> ok, data |-> data]
Read(data, ok) == [op |-> "read", ok |-> ok, data |-> data]

\* RpcClient::new
RpcClient_new ==
    [bt_rpc_group_id |-> UNKNOWN_ID, rpc_utils_group_id |-> UNKNOWN_ID,
     context_id |-> 0]

\* the first Init packet with the source group id of the second
bt_rpc_init_slot1 == PacketBuilder_init(PacketBuilder_new(INIT_CAPACITY), 1, BT_RPC_NAME)

\* the two Init packets of RpcClient::init
bt_rpc_init == PacketBuilder_init(PacketBuilder_new(INIT_CAPACITY), 0, BT_RPC_NAME)
rpc_utils_init == PacketBuilder_init(PacketBuilder_new(INIT_CAPACITY), 1, RPC_UTILS_NAME)

\* Ble::new has built the RpcClient and init is about to send its first packet
Init ==
    /\ pc = "init_write1"
    /\ bt_rpc_group_id = RpcClient_new.bt_rpc_group_id
    /\ rpc_utils_group_id = RpcClient_new.rpc_utils_group_id
    /\ context_id = RpcClient_new.context_id
    /\ packet = <<>>
    /\ trace = <<>>
    /\ new_result = "Pending"
    /\ result = Pending
    /\ calls = 0
    /\ call_writes = 0
    /\ call_reads = 0
    /\ decoded = FALSE
    /\ CodecIdle

\* init swallowing a transport error and returning Ok
InitFails_swallowed ==
    /\ pc' = "ready"
    /\ new_result' = "Ok"

\* `?` in init: the error leaves init and Ble::new, the client is dropped
InitFails ==
    /\ pc' = "failed"
    /\ new_result' = "Transport"

\* init, first send_packet
InitWrite1 ==
    /\ pc = "init_write1"
    /\ \E ok \in BOOLEAN :
        /\ trace' = Append(trace, Write(as_slice(bt_rpc_init), ok))
        /\ IF ok
           THEN /\ pc' = "init_write2"
                /\ UNCHANGED new_result
           ELSE InitFails
    /\ UNCHANGED <<client, packet, call_state, codec>>

\* init, second send_packet
InitWrite2 ==
    /\ pc = "init_write2"
    /\ \E ok \in BOOLEAN :
        /\ trace' = Append(trace, Write(as_slice(rpc_utils_init), ok))
        /\ IF ok
           THEN /\ pc' = "init_read1"
                /\ UNCHANGED new_result
           ELSE InitFails
    /\ UNCHANGED <<client, packet, call_state, codec>>

\* init, first receive_packet into the zeroed response_buf
InitRead1 ==
    /\ pc = "init_read1"
    /\ \/ \E reply \in Replies :
            LET response_buf == ReadInto(ZeroResponseBuf, reply)
            IN /\ trace' = Append(trace, Read(reply, TRUE))
               /\ bt_rpc_group_id' =
                     init_group_id(Len(reply), response_buf, bt_rpc_group_id)
               /\ pc' = "init_read2"
               /\ UNCHANGED new_result
       \/ /\ trace' = Append(trace, Read(<<>>, FALSE))
          /\ InitFails
          /\ UNCHANGED bt_rpc_group_id
    /\ UNCHANGED <<rpc_utils_group_id, context_id, packet, call_state, codec>>

\* response_buf as the first read of init left it
BufAfterRead1 == ReadInto(ZeroResponseBuf, trace[3].data)

\* init returns Ok(()) and Ble::new returns the client
InitDone ==
    /\ pc' = "ready"
    /\ new_result' = "Ok"

\* init, second receive_packet into the same response_buf
InitRead2 ==
    /\ pc = "init_read2"
    /\ \/ \E reply \in Replies :
            LET response_buf == ReadInto(BufAfterRead1, reply)
            IN /\ trace' = Append(trace, Read(reply, TRUE))
               /\ rpc_utils_group_id' =
                     init_group_id(Len(reply), response_buf, rpc_utils_group_id)
               /\ InitDone
       \/ /\ trace' = Append(trace, Read(<<>>, FALSE))
          /\ InitFails
          /\ UNCHANGED rpc_utils_group_id
    /\ UNCHANGED <<bt_rpc_group_id, context_id, packet, call_state, codec>>

\* a command call starts with builder b: a failed build returns Cbor
\* before send_command, a built packet goes to send_command
StartCall(b) ==
    /\ calls' = calls + 1
    /\ call_writes' = 0
    /\ call_reads' = 0
    /\ decoded' = FALSE
    /\ IF b.err # "None"
       THEN /\ result' = Err("Cbor")
            /\ UNCHANGED <<pc, packet>>
       ELSE /\ result' = Pending
            /\ pc' = "cmd_write"
            /\ packet' = as_slice(b)
    /\ UNCHANGED <<client, trace, new_result, codec>>

\* Ble::bt_enable up to send_command
BtEnable ==
    /\ pc = "ready"
    /\ calls < MaxCalls
    /\ StartCall(bt_enable_packet(context_id, bt_rpc_group_id))

\* Ble::bt_le_adv_start up to send_command
BtLeAdvStart ==
    /\ pc = "ready"
    /\ calls < MaxCalls
    /\ \E in \in AdvInputs :
          StartCall(bt_le_adv_start_packet(context_id, bt_rpc_group_id, in))

\* send_command writing the packet again after a failed write
CmdWriteFails_retry ==
    /\ pc' = "cmd_write"
    /\ UNCHANGED result

\* `?` after send_packet in send_command: the call returns Transport
CmdWriteFails ==
    /\ pc' = "ready"
    /\ result' = Err("Transport")

\* send_command returning right after its write, without the read
CmdWriteOk_noread ==
    /\ pc' = "ready"
    /\ result' = Ok(0)

\* send_packet returned Ok: send_command goes on to its read
CmdWriteOk ==
    /\ pc' = "cmd_read"
    /\ UNCHANGED result

\* send_command: send_packet
CmdWrite ==
    /\ pc = "cmd_write"
    /\ \E ok \in BOOLEAN :
        /\ trace' = Append(trace, Write(packet, ok))
        /\ IF ok
           THEN CmdWriteOk
           ELSE CmdWriteFails
    /\ call_writes' = call_writes + 1
    /\ UNCHANGED <<client, packet, new_result, calls, call_reads, decoded,
                   codec>>

\* send_command running the handshake again after a failed read
CmdReadFails_reinit ==
    /\ pc' = "init_write1"
    /\ result' = Err("Transport")
    /\ UNCHANGED decoded

\* send_command marking the client as faulted after a failed read
CmdReadFails_faulted ==
    /\ pc' = "failed"
    /\ result' = Err("Transport")
    /\ UNCHANGED decoded

\* send_command reporting a failed read as a timeout
CmdReadFails_timeout ==
    /\ pc' = "ready"
    /\ result' = Err("Timeout")
    /\ UNCHANGED decoded

\* send_command reading again after a failed read
CmdReadFails_reread ==
    /\ pc' = "cmd_read"
    /\ UNCHANGED <<result, decoded>>

\* `?` after receive_packet in send_command: the call returns Transport
CmdReadFails ==
    /\ pc' = "ready"
    /\ result' = Err("Transport")
    /\ UNCHANGED decoded

\* send_command taking the group id from byte 4 of what it read
CmdLearnsGroupId ==
    /\ bt_rpc_group_id' =
          (LET d == trace'[Len(trace')].data
           IN IF Len(d) >= 5 THEN d[5] ELSE bt_rpc_group_id)
    /\ UNCHANGED <<rpc_utils_group_id, context_id>>

\* what send_command leaves in the client's fields
CmdKeepsClient == UNCHANGED client

\* send_command reading on past a packet that is not a Response
CmdRead_skipping ==
    /\ pc = "cmd_read"
    /\ \/ \E reply \in Replies :
            LET response_buf == ReadInto(ZeroResponseBuf, reply)
                r == send_command_response(Len(reply), response_buf)
            IN /\ trace' = Append(trace, Read(reply, TRUE))
               /\ IF Len(reply) >= 5 /\ And7F(reply[1]) # PT_RESPONSE
                  THEN /\ pc' = "cmd_read"
                       /\ UNCHANGED <<result, decoded>>
                  ELSE /\ result' = r.result
                       /\ decoded' = r.decoded
                       /\ pc' = "ready"
       \/ /\ trace' = Append(trace, Read(<<>>, FALSE))
          /\ CmdReadFails
    /\ call_reads' = call_reads + 1
    /\ CmdKeepsClient
    /\ UNCHANGED <<packet, new_result, calls, call_writes, codec>>

\* send_command: receive_packet, then the checks and the decode
CmdRead ==
    /\ pc = "cmd_read"
    /\ \/ \E reply \in Replies :
            LET response_buf == ReadInto(ZeroResponseBuf, reply)
                r == send_command_response(Len(reply), response_buf)
            IN /\ trace' = Append(trace, Read(reply, TRUE))
               /\ result' = r.result
               /\ decoded' = r.decoded
               /\ pc' = "ready"
       \/ /\ trace' = Append(trace, Read(<<>>, FALSE))
          /\ CmdReadFails
    /\ call_reads' = call_reads + 1
    /\ CmdKeepsClient
    /\ UNCHANGED <<packet, new_result, calls, call_writes, codec>>

Next ==
    \/ InitWrite1
    \/ InitWrite2
    \/ InitRead1
    \/ InitRead2
    \/ BtEnable
    \/ BtLeAdvStart
    \/ CmdWrite
    \/ CmdRead

Spec == Init /\ [][Next]_vars

\* every transport write and read the client awaits eventually returns,
\* with success or with an error
TransportReturns ==
    /\ WF_vars(InitWrite1)
    /\ WF_vars(InitWrite2)
    /\ WF_vars(InitRead1)
    /\ WF_vars(InitRead2)
    /\ WF_vars(CmdWrite)
    /\ WF_vars(CmdRead)

\* the command calls of the runs checked for termination
FairBtEnable == calls < MaxFairCalls /\ BtEnable

FairBtLeAdvStart == calls < MaxFairCalls /\ BtLeAdvStart

FairNext ==
    \/ InitWrite1
    \/ InitWrite2
    \/ InitRead1
    \/ InitRead2
    \/ FairBtEnable
    \/ FairBtLeAdvStart
    \/ CmdWrite
    \/ CmdRead

FairSpec == Init /\ [][FairNext]_vars /\ TransportReturns

(***************************************************************************)
(* The codec on its own: the packet builder, the advertise-start encoder   *)
(* and the response decoder applied to inputs drawn from bounded sets.     *)
(* The client is constructed (its group id is whatever the handshake left) *)
(* and no command call is running.                                         *)
(***************************************************************************)
\* group ids the handshake may leave in the client
GroupIds == {0, 1, UNKNOWN_ID}

\* capacities N of PacketBuilder<N>
Capacities == {1, 2, 3, 5, 12}

UintInputs == {0, 23, 24, 255, 256, 65535, 65536, 2147483647}
IntInputs == {-1, -24, -25, -257, -2147483647 - 1}
BytesInputs == {<<>>, <<6>>, NordicPS}
StrInputs == {<<>>, BT_RPC_NAME}

\* all sequences over S of length at most n
SeqsUpTo(S, n) == UNION {[1..k -> S] : k \in 0..n}

PeerParam == [TraceParam EXCEPT !.peer = SomePeer]
WideParam ==
    [id |-> 1, sid |-> 23, secondary_max_skip |-> 24, options |-> 65536,
     interval_min |-> 255, interval_max |-> 16384, peer |-> NoPeer]

CodecItems ==
    { [data_type |-> BT_DATA_FLAGS, data |-> <<6>>],
      [data_type |-> BT_DATA_NAME_COMPLETE, data |-> NordicPS],
      [data_type |-> 255, data |-> <<1, 2, 3, 4>>],
      [data_type |-> 22, data |-> <<>>] }

CodecAdvInputs ==
    [param : {TraceParam, PeerParam, WideParam},
     ad : SeqsUpTo(CodecItems, MaxItems),
     sd : SeqsUpTo(CodecItems, MaxItems)]

\* reply headers: whether byte 0 marks a Response, and the five bytes
HeaderCases ==
    { [response |-> TRUE,  bytes |-> <<1, 0, 0, 0, 0>>],
      [response |-> TRUE,  bytes |-> <<129, 7, 255, 2, 9>>],
      [response |-> FALSE, bytes |-> <<4, 0, 255, 0, 0>>],
      [response |-> FALSE, bytes |-> <<128, 0, 255, 0, 0>>],
      [response |-> FALSE, bytes |-> <<0, 1, 1, 1, 1>>],
      [response |-> FALSE, bytes |-> <<3, 0, 0, 0, 0>>] }

\* reply payloads, each with the value a well-formed leading integer item
\* within the i32 range stands for
PayloadCases ==
    { [bytes |-> <<>>,                          expect |-> Err("InvalidResponse")],
      [bytes |-> <<0>>,                         expect |-> Ok(0)],
      [bytes |-> <<23>>,                        expect |-> Ok(23)],
      [bytes |-> <<24, 28>>,                    expect |-> Ok(28)],
      [bytes |-> <<25, 1, 0>>,                  expect |-> Ok(256)],
      [bytes |-> <<26, 0, 1, 0, 0>>,            expect |-> Ok(65536)],
      [bytes |-> <<26, 127, 255, 255, 255>>,    expect |-> Ok(2147483647)],
      [bytes |-> <<26, 128, 0, 0, 0>>,          expect |-> Err("InvalidResponse")],
      [bytes |-> <<27, 0, 0, 0, 0, 0, 0, 0, 5>>, expect |-> Ok(5)],
      [bytes |-> <<27, 0, 0, 0, 1, 0, 0, 0, 0>>, expect |-> Err("InvalidResponse")],
      [bytes |-> <<32>>,                        expect |-> Ok(-1)],
      [bytes |-> <<56, 24>>,                    expect |-> Ok(-25)],
      [bytes |-> <<57, 1, 0>>,                  expect |-> Ok(-257)],
      [bytes |-> <<58, 127, 255, 255, 255>>,    expect |-> Ok(-2147483647 - 1)],
      [bytes |-> <<58, 128, 0, 0, 0>>,          expect |-> Err("InvalidResponse")],
      [bytes |-> <<5, 246>>,                    expect |-> Ok(5)],
      [bytes |-> <<24>>,                        expect |-> Err("InvalidResponse")],
      [bytes |-> <<25, 1>>,                     expect |-> Err("InvalidResponse")],
      [bytes |-> <<26, 0, 0, 1>>,               expect |-> Err("InvalidResponse")],
      [bytes |-> <<28, 0>>,                     expect |-> Err("InvalidResponse")],
      [bytes |-> <<246>>,                       expect |-> Err("InvalidResponse")],
      [bytes |-> <<65, 6>>,                     expect |-> Err("InvalidResponse")],
      [bytes |-> <<98, 111, 107>>,              expect |-> Err("InvalidResponse")],
      [bytes |-> <<245>>,                       expect |-> Err("InvalidResponse")] }

\* what one read may deliver to send_command
CodecReplies ==
    {h.bytes \o p.bytes : h \in HeaderCases, p \in PayloadCases}
    \cup {<<>>, <<1>>, <<1, 0, 0, 0>>, <<129, 0, 0, 5>>}

CodecInit ==
    /\ pc = "codec"
    /\ bt_rpc_group_id \in GroupIds
    /\ rpc_utils_group_id = UNKNOWN_ID
    /\ context_id = RpcClient_new.context_id
    /\ packet = <<>>
    /\ trace = <<>>
    /\ new_result = "Ok"
    /\ result = Pending
    /\ calls = 0
    /\ call_writes = 0
    /\ call_reads = 0
    /\ decoded = FALSE
    /\ CodecIdle

\* PacketBuilder::<N>::new()
NewBuilder ==
    /\ eval = NoEval
    /\ last_op.name = "none"
    /\ \E N \in Capacities :
        /\ builder' = PacketBuilder_new(N)
        /\ prev_builder' = PacketBuilder_new(N)
        /\ last_op' = [name |-> "new", arg |-> N, n |-> 0]
    /\ UNCHANGED <<pc, client, packet, trace, new_result, call_state, eval>>

\* group names and source group ids handed to PacketBuilder::init
InitNames == {<<>>, BT_RPC_NAME, RPC_UTILS_NAME}
InitGroupIds == {0, 1, UNKNOWN_ID}

\* PacketBuilder::<N>::new().init(src_group_id, group_name); a panic leaves
\* no builder to go on with
BuildInit ==
    /\ eval = NoEval
    /\ last_op.name = "new"
    /\ \E src_group_id \in InitGroupIds, group_name \in InitNames :
        /\ builder' = PacketBuilder_init(builder, src_group_id, group_name)
        /\ last_op' = [name |-> "init",
                       arg |-> [src_group_id |-> src_group_id,
                                group_name |-> group_name],
                       n |-> 0]
    /\ prev_builder' = builder
    /\ UNCHANGED <<pc, client, packet, trace, new_result, call_state, eval>>

\* PacketBuilder::<N>::new().command(..) with the arguments Ble passes
BuildCommand ==
    /\ eval = NoEval
    /\ last_op.name = "new"
    /\ \E cmd_id \in {BT_ENABLE_RPC_CMD, BT_LE_ADV_START_RPC_CMD} :
        /\ builder' = PacketBuilder_command(builder, context_id, cmd_id, 255,
                                            bt_rpc_group_id, bt_rpc_group_id)
        /\ last_op' = [name |-> "command",
                       arg |-> <<context_id, cmd_id, 255, bt_rpc_group_id,
                                 bt_rpc_group_id>>,
                       n |-> 0]
    /\ prev_builder' = builder
    /\ UNCHANGED <<pc, client, packet, trace, new_result, call_state, eval>>

\* header fields handed to PacketBuilder::command
HeaderInputs ==
    [src_ctx_id : {0, 1, 127}, cmd_id : {0, 4, 255}, dst_ctx_id : {0, 9, 255},
     src_grp_id : {0, 1, 255}, dst_grp_id : {0, 2, 255}]

\* PacketBuilder::<N>::new().command(..) on one set of header fields
EncodeHeader ==
    /\ eval = NoEval
    /\ last_op.name = "none"
    /\ \E N \in Capacities, h \in HeaderInputs :
        LET b == PacketBuilder_command(PacketBuilder_new(N), h.src_ctx_id,
                    h.cmd_id, h.dst_ctx_id, h.src_grp_id, h.dst_grp_id)
        IN eval' = [kind |-> "header", in |-> h, capacity |-> N,
                    err |-> b.err, out |-> as_slice(b)]
    /\ UNCHANGED <<pc, client, packet, trace, new_result, call_state,
                   builder, prev_builder, last_op>>

\* one value-appending operation on the builder; a failed operation
\* returns the error and leaves no builder to go on with
BuilderOp(name, arg, b) ==
    /\ eval = NoEval
    /\ last_op.name # "none"
    /\ last_op.n < MaxOps
    /\ builder.err = "None"
    /\ prev_builder' = builder
    /\ builder' = b
    /\ last_op' = [name |-> name, arg |-> arg, n |-> last_op.n + 1]
    /\ UNCHANGED <<pc, client, packet, trace, new_result, call_state, eval>>

CborUint ==
    \E value \in UintInputs :
        BuilderOp("cbor_uint", value, cbor_uint(builder, value))

CborInt ==
    \E value \in IntInputs :
        BuilderOp("cbor_int", value, cbor_int(builder, value))

CborBytes ==
    \E bytes \in BytesInputs :
        BuilderOp("cbor_bytes", bytes, cbor_bytes(builder, bytes))

CborStr ==
    \E str \in StrInputs :
        BuilderOp("cbor_str", str, cbor_str(builder, str))

CborNull == BuilderOp("cbor_null", 0, cbor_null(builder))

\* Ble::bt_le_adv_start up to send_command, on one input
EncodeAdvStart ==
    /\ eval = NoEval
    /\ last_op.name = "none"
    /\ \E in \in CodecAdvInputs :
        LET b == bt_le_adv_start_packet(context_id, bt_rpc_group_id, in)
        IN eval' = [kind |-> "adv_start", in |-> in, err |-> b.err,
                    out |-> as_slice(b),
                    scratchpad_size |->
                        calculate_scratchpad_size(in.param, in.ad, in.sd)]
    /\ UNCHANGED <<pc, client, packet, trace, new_result, call_state,
                   builder, prev_builder, last_op>>

\* send_command after its read delivered one reply
DecodeResponse ==
    /\ eval = NoEval
    /\ last_op.name = "none"
    /\ \E reply \in CodecReplies :
        eval' = [kind |-> "response", in |-> reply,
                 out |-> send_command_response(
                            Len(reply), ReadInto(ZeroResponseBuf, reply)).result]
    /\ UNCHANGED <<pc, client, packet, trace, new_result, call_state,
                   builder, prev_builder, last_op>>

CodecNext ==
    \/ NewBuilder
    \/ BuildInit
    \/ BuildCommand
    \/ EncodeHeader
    \/ CborUint
    \/ CborInt
    \/ CborBytes
    \/ CborStr
    \/ CborNull
    \/ EncodeAdvStart
    \/ DecodeResponse

CodecSpec == CodecInit /\ [][CodecNext]_vars

(***************************************************************************)
(* Reading the trace                                                       *)
(***************************************************************************)
\* the handshake is the first four transport operations
HandshakeOps == 2 + 2

Last(t) == t[Len(t)]

IsInitPacket(d) == Len(d) >= 1 /\ d[1] = PT_INIT
IsCommandPacket(d) == Len(d) >= 1 /\ d[1] >= PT_COMMAND

\* a handshake read that carries the tag init looks for
LooksLikeInitReply(d) == Len(d) >= 5 /\ d[1] = 4

\* the last command call has returned and its read had delivered a reply
CallReturnedAfterReply ==
    /\ pc = "ready"
    /\ calls > 0
    /\ call_reads = 1
    /\ Last(trace).op = "read"
    /\ Last(trace).ok

\* command writes the transport accepted, and command reads that returned
RECURSIVE CountOps(_, _, _)
CountOps(t, op, okOnly) ==
    IF t = <<>> THEN 0
    ELSE (IF Head(t).op = op /\ (Head(t).ok \/ ~okOnly) THEN 1 ELSE 0)
         + CountOps(Tail(t), op, okOnly)

CommandOps == SubSeq(trace, HandshakeOps + 1, Len(trace))

Outstanding == CountOps(CommandOps, "write", TRUE) - CountOps(CommandOps, "read", FALSE)

(***************************************************************************)
(* Claims                                                                  *)
(***************************************************************************)

\* C1: when the reply to a command has fewer than 5 bytes, or its byte 0
\* masked with 0x7F is not 0x01, send_command returns InvalidResponse and
\* hands nothing to the decoder.
C1_MinLengthRejection ==
    CallReturnedAfterReply =>
        LET reply == Last(trace).data
        IN (Len(reply) < 5 \/ reply[1] % 128 # 1) =>
              (result = Err("InvalidResponse") /\ ~decoded)

\* C1 witness: a call got a reply of at least 5 bytes that is no Response
\* and returned InvalidResponse.
C1_Witness ==
    /\ CallReturnedAfterReply
    /\ Len(Last(trace).data) >= 5
    /\ Last(trace).data[1] % 128 # 1
    /\ result = Err("InvalidResponse")

\* C2 as stated: every command call that has returned performed exactly one
\* write followed by exactly one read.
C2_Original ==
    (pc = "ready" /\ calls > 0) => (call_writes = 1 /\ call_reads = 1)

\* C2 amended: a command call performs at most one write and at most one
\* read, the read directly after its accepted write; a call that returns Ok
\* or InvalidResponse has performed exactly one write and one read; a
\* command write never follows an accepted command write without the read
\* in between, so at most one command is outstanding.
C2_LockStep ==
    /\ call_writes <= 1
    /\ call_reads <= call_writes
    /\ pc = "cmd_write" => (call_writes = 0 /\ call_reads = 0)
    /\ pc = "cmd_read" =>
          (call_writes = 1 /\ call_reads = 0
           /\ Last(trace).op = "write" /\ Last(trace).ok)
    /\ (pc = "ready" /\ calls > 0 /\ result.kind \in {"Ok", "InvalidResponse"}) =>
          (call_writes = 1 /\ call_reads = 1)
    /\ \A i \in (HandshakeOps + 1)..Len(trace) :
          /\ trace[i].op = "read" =>
                (i > HandshakeOps + 1 /\ trace[i - 1].op = "write" /\ trace[i - 1].ok)
          /\ (trace[i].op = "write" /\ i > HandshakeOps + 1) =>
                ~(trace[i - 1].op = "write" /\ trace[i - 1].ok)
    /\ Outstanding \in {0, 1}
    /\ Outstanding = 1 <=> pc = "cmd_read"

\* C2 witness: a second command was written after the first command's read
\* had returned.
C2_Witness ==
    /\ Len(trace) >= HandshakeOps + 3
    /\ trace[HandshakeOps + 1].op = "write" /\ trace[HandshakeOps + 1].ok
    /\ trace[HandshakeOps + 2].op = "read"
    /\ trace[HandshakeOps + 3].op = "write"
    /\ pc = "cmd_read"

\* C3: a handshake read that the transport completes but that is shorter
\* than 5 bytes or does not carry the tag init looks for leaves its group id
\* (bt_rpc for the first read, rpc_utils for the second) at 0xFF, and
\* construction goes on and returns Ok.
C3_HandshakeLeniency ==
    /\ (Len(trace) >= 3 /\ trace[3].ok /\ ~LooksLikeInitReply(trace[3].data)) =>
          bt_rpc_group_id = 255
    /\ (Len(trace) >= 4 /\ trace[4].ok /\ ~LooksLikeInitReply(trace[4].data)) =>
          rpc_utils_group_id = 255
    /\ (Len(trace) = 3 /\ trace[3].ok) =>
          (pc = "init_read2" /\ new_result = "Pending")
    /\ (Len(trace) >= 4 /\ trace[4].ok) =>
          (new_result = "Ok" /\ pc # "failed")

\* C3 witness: construction returned Ok after a 0-byte first read and a
\* second read carrying a Response tag; both ids are 0xFF.
C3_Witness ==
    /\ new_result = "Ok"
    /\ trace[3].data = <<>>
    /\ Len(trace[4].data) >= 5 /\ trace[4].data[1] = 1
    /\ bt_rpc_group_id = 255
    /\ rpc_utils_group_id = 255

\* C4: construction's transport operations are, in this order, the write of
\* the Init packet of "bt_rpc" with source group id 0, the write of the Init
\* packet of "rpc_utils" with source group id 1, a read and a read; each
\* happens only after the one before succeeded, and there are exactly these
\* four when construction returns Ok.
C4_InitOrder ==
    /\ Len(trace) >= 1 =>
          /\ trace[1].op = "write"
          /\ IsInitPacket(trace[1].data)
          /\ trace[1].data[4] = 0
          /\ SubSeq(trace[1].data, 7, Len(trace[1].data)) = BT_RPC_NAME
    /\ Len(trace) >= 2 =>
          /\ trace[1].ok
          /\ trace[2].op = "write"
          /\ IsInitPacket(trace[2].data)
          /\ trace[2].data[4] = 1
          /\ SubSeq(trace[2].data, 7, Len(trace[2].data)) = RPC_UTILS_NAME
    /\ Len(trace) >= 3 => (trace[2].ok /\ trace[3].op = "read")
    /\ Len(trace) >= 4 => (trace[3].ok /\ trace[4].op = "read")
    /\ new_result = "Ok" => (Len(trace) >= 4 /\ trace[4].ok)
    /\ (new_result = "Ok" /\ calls = 0) => Len(trace) = 4
    /\ new_result = "Pending" => Len(trace) < 4

\* C4 witness: construction has just returned Ok after its four operations.
C4_Witness ==
    /\ new_result = "Ok"
    /\ calls = 0
    /\ Len(trace) = 4
    /\ \A i \in 1..4 : trace[i].ok

\* C5: after a successful construction the bt_rpc group id is byte 4 of the
\* first handshake read when that read has at least 5 bytes and byte 0 =
\* 0x04, else 0xFF; the rpc_utils group id is the same function of the
\* second read alone.
C5_PositionalHandshake ==
    new_result = "Ok" =>
        /\ bt_rpc_group_id =
              (IF Len(trace[3].data) >= 5 /\ trace[3].data[1] = 4
               THEN trace[3].data[5] ELSE 255)
        /\ rpc_utils_group_id =
              (IF Len(trace[4].data) >= 5 /\ trace[4].data[1] = 4
               THEN trace[4].data[5] ELSE 255)

\* C5 witness: the reply carrying id 1 came first and the one carrying id 0
\* second, and the groups got them in that order.
C5_Witness ==
    /\ new_result = "Ok"
    /\ trace[3].data = <<4, 0, 255, 5, 1, 0>>
    /\ trace[4].data = <<4, 0, 255, 0, 0, 0>>
    /\ bt_rpc_group_id = 1
    /\ rpc_utils_group_id = 0

\* C6: no Command packet is written before both handshake reads have
\* returned, and no Init packet is written after the two of construction.
C6_HandshakeOnce ==
    \A i \in 1..Len(trace) :
        trace[i].op = "write" =>
            /\ IsCommandPacket(trace[i].data) =>
                  (i > HandshakeOps /\ trace[3].op = "read" /\ trace[3].ok
                   /\ trace[4].op = "read" /\ trace[4].ok)
            /\ IsInitPacket(trace[i].data) => i <= 2
            /\ i > HandshakeOps => IsCommandPacket(trace[i].data)

\* C6 witness: two commands have been written after the handshake, one of
\* them after a failed read.
C6_Witness ==
    /\ Len(trace) = HandshakeOps + 3
    /\ ~trace[HandshakeOps + 2].ok
    /\ IsCommandPacket(trace[HandshakeOps + 1].data)
    /\ IsCommandPacket(trace[HandshakeOps + 3].data)

\* C7: once construction has returned, no step changes the bt_rpc or the
\* rpc_utils group id.
C7_GroupIdsImmutable ==
    [][new_result = "Ok" =>
          /\ bt_rpc_group_id' = bt_rpc_group_id
          /\ rpc_utils_group_id' = rpc_utils_group_id]_vars

\* C7 witness: a call returned Ok on a reply whose byte 4 differs from the
\* bt_rpc group id, which still is what the handshake left.
C7_Witness ==
    /\ CallReturnedAfterReply
    /\ result.kind = "Ok"
    /\ Last(trace).data[5] # bt_rpc_group_id
    /\ bt_rpc_group_id = 1

\* C8: context_id is 0 in every state, and every packet a command call
\* writes has byte 0 = 0x80 and byte 2 = 0xFF.
C8_ContextIdZero ==
    /\ context_id = 0
    /\ \A i \in (HandshakeOps + 1)..Len(trace) :
          trace[i].op = "write" =>
              (trace[i].data[1] = 128 /\ trace[i].data[3] = 255)
    /\ pc = "cmd_write" => (packet[1] = 128 /\ packet[3] = 255)

\* C8 witness: two command packets have been written, the enable call's and
\* the advertise-start call's.
C8_Witness ==
    \E i, j \in (HandshakeOps + 1)..Len(trace) :
        /\ trace[i].op = "write" /\ trace[i].data[2] = BT_ENABLE_RPC_CMD
        /\ trace[j].op = "write" /\ trace[j].data[2] = BT_LE_ADV_START_RPC_CMD

\* C9: a command call returns Transport exactly on the transport operation
\* that failed: after one write attempt and no read when the write failed,
\* after one write and one read attempt when the read failed; a failed
\* operation is the last one of the call that made it.
C9_NoRetry ==
    /\ (pc = "ready" /\ calls > 0 /\ result = Err("Transport")) =>
          /\ ~Last(trace).ok
          /\ \/ Last(trace).op = "write" /\ call_writes = 1 /\ call_reads = 0
             \/ Last(trace).op = "read" /\ call_writes = 1 /\ call_reads = 1
    /\ (Len(trace) > HandshakeOps /\ ~Last(trace).ok /\ call_writes > 0) =>
          (pc = "ready" /\ result = Err("Transport"))
    /\ call_writes <= 1
    /\ call_reads <= 1

\* C9 witness: a call returned Transport after its read failed.
C9_Witness ==
    /\ pc = "ready"
    /\ result = Err("Transport")
    /\ Last(trace).op = "read"
    /\ ~Last(trace).ok
    /\ call_writes = 1
    /\ call_reads = 1

\* C10: when one of construction's four transport operations fails,
\* construction returns Transport, the failed operation is the last one on
\* the transport, and no command call is ever made.
C10_InitFailure ==
    /\ \A i \in 1..HandshakeOps :
          (i <= Len(trace) /\ ~trace[i].ok) =>
              /\ pc = "failed"
              /\ new_result = "Transport"
              /\ Len(trace) = i
              /\ calls = 0
    /\ pc = "failed" <=> new_result = "Transport"
    /\ pc = "failed" => (Len(trace) <= HandshakeOps /\ ~Last(trace).ok)

\* C10 witness: the first handshake read failed; construction returned
\* Transport without the second read.
C10_Witness ==
    /\ pc = "failed"
    /\ new_result = "Transport"
    /\ Len(trace) = 3
    /\ ~trace[3].ok

\* C11 as stated: once a transport operation has failed, no later
\* operation on the client performs a transport write or read or returns Ok.
C11_Original ==
    \A i \in 1..Len(trace) :
        ~trace[i].ok => (i = Len(trace) /\ result.kind # "Ok")

\* C11 amended: a transport error during construction is terminal (no
\* client, no further operation); a transport error inside a command call
\* ends that call only: the client stays constructed with its fields as the
\* handshake left them, the failed call returns the transport error (a later
\* call may fail to encode without touching the transport), and the next
\* operation on the transport, if any, is the write of a new command call.
C11_FaultIsPerCall ==
    /\ \A i \in 1..HandshakeOps :
          (i <= Len(trace) /\ ~trace[i].ok) => (Len(trace) = i /\ pc = "failed")
    /\ \A i \in (HandshakeOps + 1)..Len(trace) :
          ~trace[i].ok =>
              /\ pc \in {"ready", "cmd_write", "cmd_read"}
              /\ new_result = "Ok"
              /\ context_id = 0
              /\ bt_rpc_group_id =
                    init_group_id(Len(trace[3].data),
                                  ReadInto(ZeroResponseBuf, trace[3].data), 255)
              /\ i < Len(trace) =>
                    (trace[i + 1].op = "write" /\ IsCommandPacket(trace[i + 1].data))
              /\ (i = Len(trace) /\ pc = "ready") =>
                    result.kind \in {"Transport", "Cbor"}

\* C11 witness: a command call failed on the transport and a later call on
\* the same client wrote, read and returned Ok.
C11_Witness ==
    /\ pc = "ready"
    /\ result.kind = "Ok"
    /\ \E i \in (HandshakeOps + 1)..Len(trace) : ~trace[i].ok /\ i < Len(trace)

\* a call is waiting for a transport read to return
BlockedOnRead == pc \in {"init_read1", "init_read2", "cmd_read"}

\* C12: no operation ever returns Timeout, and a call blocked on a
\* transport read takes no step other than that read returning: nothing
\* else changes until the read is on the trace.
C12_NoBoundedWait ==
    /\ [](result.kind # "Timeout" /\ new_result # "Timeout")
    /\ [][BlockedOnRead =>
            /\ Len(trace') = Len(trace) + 1
            /\ Last(trace').op = "read"]_vars

\* C12 witness: a command call is blocked on its read, its result pending.
C12_Witness ==
    /\ pc = "cmd_read"
    /\ result = Pending
    /\ call_writes = 1
    /\ call_reads = 0

\* whether p is a proper prefix of q
IsProperPrefix(p, q) == Len(p) < Len(q) /\ SubSeq(q, 1, Len(p)) = p

\* the payload (the bytes after the 5-byte header) of a packet
Payload(p) == SubSeq(p, 6, Len(p))

\* the complete encoding of an advertise-start input, built with room to spare
CompleteEncoding(in) ==
    as_slice(encode_bt_le_adv_start(ADV_CAPACITY + ADV_CAPACITY, 0, 0, 0,
                                    in.param, in.ad, in.sd))

\* the complete payload of the input that exceeds the 256-byte builder
BigPayload == Payload(CompleteEncoding(BigInput))

\* whether p is a packet cut short: a header followed by the beginning of
\* the payload that does not fit
IsTruncated(p) ==
    /\ Len(p) >= 5
    /\ IsProperPrefix(Payload(p), BigPayload)

\* C14: a command call whose packet overflows its builder returns a Cbor
\* error in the step that starts it: that step appends nothing to the
\* transport trace, counts no write and no read, leaves the client fields
\* as they were and the client ready; a call that returned Cbor has done no
\* write and no read, and neither the packet handed to send_command nor a
\* packet written to the transport is a truncated encoding of an input that
\* does not fit.
C14_CodecFailureBeforeIO ==
    /\ [][(calls' = calls + 1 /\ result'.kind = "Cbor") =>
            /\ trace' = trace
            /\ client' = client
            /\ pc' = "ready"
            /\ call_writes' = 0
            /\ call_reads' = 0]_vars
    /\ [](result.kind = "Cbor" =>
            pc = "ready" /\ call_writes = 0 /\ call_reads = 0)
    /\ []((trace # <<>> /\ Last(trace).op = "write") =>
            ~IsTruncated(Last(trace).data))
    /\ [](pc = "cmd_write" => ~IsTruncated(packet))

\* C14 witness: an advertise-start call with items beyond 256 bytes has
\* returned a Cbor error after an earlier call used the transport.
C14_Witness ==
    /\ pc = "ready"
    /\ calls = 2
    /\ result = Err("Cbor")
    /\ call_writes = 0
    /\ call_reads = 0
    /\ Len(trace) > HandshakeOps
    /\ 5 + Len(BigPayload) > ADV_CAPACITY

\* the enable packet for group id g, as bytes on the wire
EnableBytes(g) == <<128, 0, 255, g, g, 24, 28, 24, 28, 246>>

\* C16: the enable call builds the packet 80 00 FF g g 18 1C 18 1C F6 with
\* g the client's bt_rpc group id; the write of a command call sends the
\* built packet unchanged, and a call writes at most once.
C16_EnablePacket ==
    /\ [][BtEnable =>
            /\ pc' = "cmd_write"
            /\ packet' = EnableBytes(bt_rpc_group_id)]_vars
    /\ [][pc = "cmd_write" =>
            /\ Last(trace') = Write(packet, Last(trace').ok)
            /\ Len(trace') = Len(trace) + 1]_vars
    /\ [](call_writes <= 1)

\* C16 witness: with the group id resolved to 0 the enable packet
\* 80 00 FF 00 00 18 1C 18 1C F6 has been written and answered.
C16_Witness ==
    /\ bt_rpc_group_id = 0
    /\ pc = "ready"
    /\ result.kind = "Ok"
    /\ call_writes = 1
    /\ trace[Len(trace) - 1] = Write(<<128, 0, 255, 0, 0, 24, 28, 24, 28, 246>>, TRUE)

(***************************************************************************)
(* The wire format the claims refer to, written out byte by byte           *)
(***************************************************************************)
\* head of an item of major type `major` with argument v, shortest form
RefHead(major, v) ==
    IF v < 24 THEN <<32 * major + v>>
    ELSE IF v < 256 THEN <<32 * major + 24, v>>
    ELSE IF v < 65536 THEN <<32 * major + 25, v \div 256, v % 256>>
    ELSE <<32 * major + 26, v \div 16777216, (v \div 65536) % 256,
           (v \div 256) % 256, v % 256>>

RefUint(v) == RefHead(0, v)
RefInt(v) == IF v >= 0 THEN RefHead(0, v) ELSE RefHead(1, (-1) - v)
RefBytes(d) == RefHead(2, Len(d)) \o d
RefStr(d) == RefHead(3, Len(d)) \o d
RefNull == <<246>>

\* the last operation on the builder was a value-appending one
IsValueOp ==
    last_op.name \in {"cbor_uint", "cbor_int", "cbor_bytes", "cbor_str",
                      "cbor_null"}

\* the encoded item of the last value-appending operation
EncodedItem ==
    CASE last_op.name = "cbor_uint" -> RefUint(last_op.arg)
      [] last_op.name = "cbor_int" -> RefInt(last_op.arg)
      [] last_op.name = "cbor_bytes" -> RefBytes(last_op.arg)
      [] last_op.name = "cbor_str" -> RefStr(last_op.arg)
      [] OTHER -> RefNull

\* the capacity N - pos left before the last operation
Remaining == Len(prev_builder.buffer) - prev_builder.pos

\* the bytes the last operation appended
Appended == SubSeq(builder.buffer, prev_builder.pos + 1, builder.pos)

\* C13 as stated: a value-appending operation called with less remaining
\* capacity than the encoded item needs fails with BufferTooSmall.
C13_Original ==
    (IsValueOp /\ Remaining < Len(EncodedItem)) =>
        builder.err = "BufferTooSmall"

\* C20: cbor_uint appends the shortest form: one byte equal to the value
\* up to 23, 0x18 and one byte up to 255, 0x19 and two big-endian bytes up
\* to 65535, 0x1A and four big-endian bytes above; the boundary inputs 0,
\* 23, 24, 255, 256, 65535, 65536 take 1, 1, 2, 2, 3, 3, 5 bytes, pos
\* advances by that length, and decoding the appended bytes gives the input.
C20_ShortestUint ==
    (last_op.name = "cbor_uint" /\ builder.err = "None") =>
        LET v == last_op.arg
            e == Appended
        IN /\ v < 24 => e = <<v>>
           /\ (24 <= v /\ v < 256) => e = <<24, v>>
           /\ (256 <= v /\ v < 65536) => e = <<25, v \div 256, v % 256>>
           /\ 65536 <= v =>
                 e = <<26, v \div 16777216, (v \div 65536) % 256,
                       (v \div 256) % 256, v % 256>>
           /\ \A c \in {<<0, 1>>, <<23, 1>>, <<24, 2>>, <<255, 2>>, <<256, 3>>,
                        <<65535, 3>>, <<65536, 5>>} :
                 v = c[1] => Len(e) = c[2]
           /\ builder.pos = prev_builder.pos + Len(e)
           /\ SubSeq(builder.buffer, 1, prev_builder.pos)
                 = SubSeq(prev_builder.buffer, 1, prev_builder.pos)
           /\ decode_i32(e) = Ok(v)

\* C20 witness: 65536 appended as five bytes behind an earlier item.
C20_Witness ==
    /\ last_op.name = "cbor_uint"
    /\ last_op.arg = 65536
    /\ builder.err = "None"
    /\ prev_builder.pos > 0
    /\ Appended = <<26, 0, 1, 0, 0>>

\* C15: send_command returns Ok(v) exactly when the reply has at least 5
\* bytes, byte 0 with its top bit cleared is 0x01 and the payload begins
\* with a well-formed integer item within the i32 range, v being its value;
\* every other reply gives InvalidResponse.
C15_ResponseDecoding ==
    eval.kind = "response" =>
        /\ Len(eval.in) < 5 => eval.out = Err("InvalidResponse")
        /\ \A h \in HeaderCases : \A p \in PayloadCases :
              eval.in = h.bytes \o p.bytes =>
                  eval.out = IF h.response THEN p.expect
                             ELSE Err("InvalidResponse")
        /\ eval.out.kind \in {"Ok", "InvalidResponse"}
        /\ eval.out.kind = "Ok" =>
              /\ Len(eval.in) > 5
              /\ eval.in[1] % 128 = 1
              /\ eval.in[6] < 64

\* C15 witness: a Response with the top bit set whose payload is the
\* smallest i32 has been decoded.
C15_Witness ==
    /\ eval.kind = "response"
    /\ eval.in = <<129, 7, 255, 2, 9, 58, 127, 255, 255, 255>>
    /\ eval.out = Ok(-2147483647 - 1)

\* the advertise-start packet of the recorded trace was encoded for a
\* client whose group id resolved to 0
TraceCaseEncoded ==
    /\ eval.kind = "adv_start"
    /\ eval.in = TraceInput
    /\ bt_rpc_group_id = 0

\* C17 as stated: the trace input serializes to the 34 bytes
\* 80 04 FF 00 00 18 20 00 00 00 03 18 A0 18 F0 F6 01 01 01 41 06 01 09 09
\* 4E 6F 72 64 69 63 5F 50 53 F6.
C17_Original ==
    TraceCaseEncoded =>
        eval.out = <<128, 4, 255, 0, 0, 24, 32, 0, 0, 0, 3, 24, 160, 24, 240,
                     246, 1, 1, 1, 65, 6, 1, 9, 9,
                     78, 111, 114, 100, 105, 99, 95, 80, 83, 246>>

\* C17 amended: the trace input serializes to 35 bytes, the name being a
\* byte string with its own head 0x49:
\* 80 04 FF 00 00 18 20 00 00 00 03 18 A0 18 F0 F6 01 01 01 41 06 01 09 09
\* 49 4E 6F 72 64 69 63 5F 50 53 F6.
C17_TracePacket ==
    TraceCaseEncoded =>
        /\ eval.err = "None"
        /\ Len(eval.out) = 35
        /\ eval.out = <<128, 4, 255, 0, 0, 24, 32, 0, 0, 0, 3, 24, 160, 24, 240,
                        246, 1, 1, 1, 65, 6, 1, 9, 9, 73,
                        78, 111, 114, 100, 105, 99, 95, 80, 83, 246>>

\* C17 witness: the trace input has been encoded with both group ids 0.
C17_Witness ==
    /\ TraceCaseEncoded
    /\ eval.err = "None"
    /\ eval.out[25] = 73

\* align4 as the claims define it, by the distance to the next multiple of 4
RefAlign4(n) == n + ((4 - (n % 4)) % 4)

\* sum over a list of items of align4(8) + align4(data length)
RECURSIVE RefItemsScratch(_)
RefItemsScratch(items) ==
    IF items = <<>> THEN 0
    ELSE RefAlign4(8) + RefAlign4(Len(items[1].data))
         + RefItemsScratch(Tail(items))

RefScratch(in) ==
    RefItemsScratch(in.ad) + RefItemsScratch(in.sd)
    + (IF in.param.peer.is_some THEN RefAlign4(7) ELSE 0)

\* one item on the wire: uint(type), uint(data length), the data as a byte
\* string with its own head
RefItem(it) == RefUint(it.data_type) \o RefUint(Len(it.data)) \o RefBytes(it.data)

RECURSIVE RefItems(_)
RefItems(items) ==
    IF items = <<>> THEN <<>> ELSE RefItem(items[1]) \o RefItems(Tail(items))

\* the advertise-start packet, item after item
RefAdvStart(ctx, g, in) ==
    <<128 + ctx, 4, 255, g, g>>
    \o RefUint(RefScratch(in))
    \o RefUint(in.param.id) \o RefUint(in.param.sid)
    \o RefUint(in.param.secondary_max_skip) \o RefUint(in.param.options)
    \o RefUint(in.param.interval_min) \o RefUint(in.param.interval_max)
    \o RefNull
    \o RefUint(Len(in.ad)) \o RefItems(in.ad)
    \o RefUint(Len(in.sd)) \o RefItems(in.sd)
    \o RefNull

\* the last n elements of s
Suffix(s, n) == SubSeq(s, Len(s) - n + 1, Len(s))

\* C18: the packet bt_le_adv_start builds is the command header with ctx 0
\* and both group bytes the client's bt_rpc group id, then uint(scratchpad
\* size), uint(id), uint(sid), uint(secondary_max_skip), uint(options),
\* uint(interval_min), uint(interval_max), the peer item (null), uint(number
\* of ad items), the ad items, uint(number of sd items), the sd items and a
\* final null, each item being uint(type), uint(data length) and the data as
\* a byte string with its own head; a last scan-response item "Nordic_PS"
\* ends the packet with 09 09 49 4E 6F 72 64 69 63 5F 50 53 F6.
C18_AdvStartLayout ==
    eval.kind = "adv_start" =>
        /\ eval.err = "None"
        /\ context_id = 0
        /\ eval.out = RefAdvStart(0, bt_rpc_group_id, eval.in)
        /\ SubSeq(eval.out, 1, 5)
              = <<128, 4, 255, bt_rpc_group_id, bt_rpc_group_id>>
        /\ (eval.in.sd # <<>> /\ Last(eval.in.sd).data = NordicPS
            /\ Last(eval.in.sd).data_type = 9) =>
              Suffix(eval.out, 13)
                 = <<9, 9, 73, 78, 111, 114, 100, 105, 99, 95, 80, 83, 246>>

\* C18 witness: a packet with two advertising items and the name as the
\* only scan-response item, for a client whose group id is 1.
C18_Witness ==
    /\ eval.kind = "adv_start"
    /\ bt_rpc_group_id = 1
    /\ eval.in.param = WideParam
    /\ Len(eval.in.ad) = 2
    /\ eval.in.sd = << [data_type |-> BT_DATA_NAME_COMPLETE, data |-> NordicPS] >>
    /\ eval.err = "None"
    /\ Len(eval.out) > 35

\* total data length of a list of items
RECURSIVE DataLen(_)
DataLen(items) ==
    IF items = <<>> THEN 0 ELSE Len(items[1].data) + DataLen(Tail(items))

\* C19: the scratchpad size is the sum over all items of align4(8) +
\* align4(data length), plus align4(7) = 8 only with a peer address; it is
\* 0 for empty lists without a peer, adds no padding when every data length
\* is a multiple of 4, and is the first value item of the payload.
C19_ScratchpadSize ==
    eval.kind = "adv_start" =>
        LET in == eval.in
            size == eval.scratchpad_size
            items == in.ad \o in.sd
        IN /\ size = RefScratch(in)
           /\ RefAlign4(7) = 8
           /\ (items = <<>> /\ ~in.param.peer.is_some) => size = 0
           /\ (items = <<>> /\ in.param.peer.is_some) => size = 8
           /\ ((\A i \in 1..Len(items) : Len(items[i].data) % 4 = 0)
               /\ ~in.param.peer.is_some) =>
                 size = 8 * Len(items) + DataLen(items)
           /\ eval.err = "None" =>
                 SubSeq(eval.out, 6, 5 + Len(RefUint(size))) = RefUint(size)

\* C19 witness: a peer address, and items whose data lengths 1 and 9 need
\* padding while 4 and 0 do not.
C19_Witness ==
    /\ eval.kind = "adv_start"
    /\ eval.in.param.peer.is_some
    /\ Len(eval.in.ad) = 2
    /\ Len(eval.in.ad[1].data) = 1
    /\ Len(eval.in.ad[2].data) = 4
    /\ Len(eval.in.sd) = 2
    /\ Len(eval.in.sd[1].data) = 9
    /\ Len(eval.in.sd[2].data) = 0
    /\ eval.scratchpad_size = 60

\* C21: the Init packet for source group id s and a group name is
\* 04 00 FF s FF 00 followed by the bytes of the name, nothing before or
\* after them, so it has 6 + len(name) bytes; for "bt_rpc" and s = 0 it is
\* 04 00 FF 00 FF 00 62 74 5F 72 70 63.
C21_InitPacket ==
    (last_op.name = "init" /\ builder.err = "None") =>
        LET s == last_op.arg.src_group_id
            name == last_op.arg.group_name
        IN /\ as_slice(builder) = <<4, 0, 255, s, 255, 0>> \o name
           /\ Len(as_slice(builder)) = 6 + Len(name)
           /\ builder.pos = 6 + Len(name)
           /\ (s = 0 /\ name = <<98, 116, 95, 114, 112, 99>>) =>
                 as_slice(builder)
                    = <<4, 0, 255, 0, 255, 0, 98, 116, 95, 114, 112, 99>>

\* C21 witness: the Init packet of "bt_rpc" with s = 0 was built in a
\* buffer it fills exactly.
C21_Witness ==
    /\ last_op.name = "init"
    /\ last_op.arg = [src_group_id |-> 0, group_name |-> BT_RPC_NAME]
    /\ builder.err = "None"
    /\ builder.pos = 12
    /\ Len(builder.buffer) = 12

\* C22 as stated: when 6 + len(group_name) exceeds the capacity N, building
\* the Init packet reports a failure to the caller (an error value).
C22_Original ==
    (last_op.name = "init"
     /\ 6 + Len(last_op.arg.group_name) > Len(prev_builder.buffer)) =>
        builder.err \in {"BufferTooSmall", "EncodingError"}

\* C23: a command header with src_ctx_id in 0..0x7F encodes to exactly the
\* 5 bytes 0x80 | src_ctx_id, command_id, dst_ctx_id, src_group_id,
\* dst_group_id, and decoding these bytes gives back the five field values.
C23_HeaderRoundTrip ==
    (eval.kind = "header" /\ eval.err = "None") =>
        LET h == eval.in
            d == decode_header(eval.out)
        IN /\ Len(eval.out) = 5
           /\ eval.out = <<128 + h.src_ctx_id, h.cmd_id, h.dst_ctx_id,
                           h.src_grp_id, h.dst_grp_id>>
           /\ d.err = "None"
           /\ d.is_command
           /\ d.src_ctx_id = h.src_ctx_id
           /\ d.cmd_id = h.cmd_id
           /\ d.dst_ctx_id = h.dst_ctx_id
           /\ d.src_grp_id = h.src_grp_id
           /\ d.dst_grp_id = h.dst_grp_id

\* C23 witness: a header with the largest source context id and five
\* different field values was encoded.
C23_Witness ==
    /\ eval.kind = "header"
    /\ eval.err = "None"
    /\ eval.in = [src_ctx_id |-> 127, cmd_id |-> 4, dst_ctx_id |-> 9,
                  src_grp_id |-> 1, dst_grp_id |-> 2]
    /\ eval.out = <<255, 4, 9, 1, 2>>

\* the index in the advertise-start packet of the first byte of the peer
\* item: behind the header, the scratchpad size and the six parameters
PeerItemIndex ==
    LET p == eval.in.param
    IN 5 + Len(RefUint(eval.scratchpad_size))
       + Len(RefUint(p.id)) + Len(RefUint(p.sid))
       + Len(RefUint(p.secondary_max_skip)) + Len(RefUint(p.options))
       + Len(RefUint(p.interval_min)) + Len(RefUint(p.interval_max)) + 1

\* the part of the transmitted scratchpad size that is not due to items
PeerAllowance ==
    eval.scratchpad_size
    - (RefItemsScratch(eval.in.ad) + RefItemsScratch(eval.in.sd))

\* C24 as stated: the peer item of the advertise-start payload is null
\* exactly when the parameters carry no peer address, and the transmitted
\* scratchpad size includes align4(7) exactly when the peer item is not null.
C24_Original ==
    (eval.kind = "adv_start" /\ eval.err = "None") =>
        /\ (eval.out[PeerItemIndex] = 246) <=> ~eval.in.param.peer.is_some
        /\ (PeerAllowance = RefAlign4(7)) <=> (eval.out[PeerItemIndex] # 246)

\* two replies of equal length that differ at most in bytes 1..4 and in
\* bit 7 of byte 0
SameButHeader(a, b) ==
    /\ Len(a) = Len(b)
    /\ Len(a) >= 1 => a[1] % 128 = b[1] % 128
    /\ \A i \in 6..Len(a) : a[i] = b[i]

\* C26: the result of send_command is the same for any two replies of
\* equal length that differ only in bytes 1..4 and in bit 7 of byte 0; a
\* Response whose destination context id is not 0 is accepted.
C26_HeaderIgnored ==
    eval.kind = "response" =>
        /\ \A other \in CodecReplies :
              SameButHeader(eval.in, other) =>
                  send_command_response(
                      Len(other), ReadInto(ZeroResponseBuf, other)).result
                    = eval.out
        /\ (Len(eval.in) > 5 /\ eval.in[1] % 128 = 1 /\ eval.in[6] < 24) =>
              eval.out = Ok(eval.in[6])

\* C26 witness: a Response with bit 7 set, command id 7, destination
\* context id 0xFF and group ids 2 and 9 was accepted with its value 28.
C26_Witness ==
    /\ eval.kind = "response"
    /\ eval.in = <<129, 7, 255, 2, 9, 24, 28>>
    /\ eval.out = Ok(28)

\* C27: pos never exceeds the capacity and as_slice() has pos bytes; a
\* successful value-appending operation keeps the capacity and the bytes
\* already in as_slice() as a prefix and grows pos by the length of the
\* encoded item, which is what it appends (cbor_null one byte 0xF6); after
\* a failed operation there is no builder: nothing is applied to it again.
C27_AppendOnly ==
    /\ [](/\ builder.pos <= Len(builder.buffer)
          /\ Len(as_slice(builder)) = builder.pos)
    /\ []((IsValueOp /\ builder.err = "None") =>
            /\ Len(builder.buffer) = Len(prev_builder.buffer)
            /\ SubSeq(as_slice(builder), 1, prev_builder.pos)
                  = as_slice(prev_builder)
            /\ builder.pos = prev_builder.pos + Len(EncodedItem)
            /\ Appended = EncodedItem
            /\ last_op.name = "cbor_null" =>
                  (builder.pos = prev_builder.pos + 1 /\ Appended = <<246>>))
    /\ []((IsValueOp /\ builder.err # "None") =>
            builder.err \in {"BufferTooSmall", "EncodingError"})
    /\ [][builder.err # "None" =>
            (builder' = builder /\ last_op' = last_op)]_vars

\* C27 witness: a byte string appended behind a command header and an
\* integer, in a builder of 12 bytes.
C27_Witness ==
    /\ last_op.name = "cbor_bytes"
    /\ last_op.n = 2
    /\ builder.err = "None"
    /\ Len(builder.buffer) = 12
    /\ as_slice(builder) = <<128, 4, 255, 1, 1, 24, 255, 65, 6>>

\* what send_command returns for one entry of the trace that is a read
OutcomeOfRead(r) ==
    IF ~r.ok THEN Err("Transport")
    ELSE send_command_response(
             Len(r.data), ReadInto(ZeroResponseBuf, r.data)).result

\* the command calls whose write the transport accepted: those that reach
\* their read
CallsReachingRead == CountOps(CommandOps, "write", TRUE)

\* C25: replies are matched to calls by position only.  Every read of the
\* command phase directly follows the accepted write of its own call, so a
\* call that reaches its read consumes exactly one read; when the k-th such
\* call has returned, the reply it consumed is the (k+2)-th read on the
\* transport and its result is what that one packet decodes to: a packet
\* of at least 5 bytes that is not a Response gives InvalidResponse, and
\* the packet after it goes to the next call.
C25_PositionalReplies ==
    pc \in {"ready", "cmd_write", "cmd_read"} =>
        /\ trace[3].op = "read" /\ trace[4].op = "read"
        /\ \A i \in (HandshakeOps + 1)..Len(trace) :
              trace[i].op = "read" =>
                  (trace[i - 1].op = "write" /\ trace[i - 1].ok)
        /\ CountOps(CommandOps, "read", FALSE)
              = CallsReachingRead - (IF pc = "cmd_read" THEN 1 ELSE 0)
        /\ (pc = "ready" /\ call_reads = 1) =>
              /\ Last(trace).op = "read"
              /\ CountOps(trace, "read", FALSE) = CallsReachingRead + 2
              /\ result = OutcomeOfRead(Last(trace))
              /\ (Last(trace).ok /\ Len(Last(trace).data) >= 5
                  /\ Last(trace).data[1] % 128 # 1) =>
                    result = Err("InvalidResponse")

\* C25 witness: the first call consumed a late handshake reply and failed
\* with InvalidResponse; the Response that followed went to the second
\* call, which returned Ok.
C25_Witness ==
    /\ pc = "ready"
    /\ calls = 2
    /\ result.kind = "Ok"
    /\ Len(trace) = HandshakeOps + 4
    /\ trace[6].op = "read"
    /\ trace[6].ok
    /\ LooksLikeInitReply(trace[6].data)
    /\ trace[8].op = "read"

\* a command call is running
InCall == pc \in {"cmd_write", "cmd_read"}

\* C28: when every transport operation eventually returns, construction
\* eventually returns, having done at most two writes and two reads, and
\* every command call eventually returns, having done at most one write and
\* one read; a returned call and a failed construction perform no further
\* transport operation.
C28_CallsReturn ==
    /\ <>(new_result # "Pending")
    /\ InCall ~> (pc = "ready")
    /\ [](new_result = "Pending" =>
            (Len(trace) < HandshakeOps /\ ~InCall /\ calls = 0))
    /\ [](Len(trace) >= HandshakeOps =>
            /\ CountOps(SubSeq(trace, 1, HandshakeOps), "write", FALSE) = 2
            /\ CountOps(SubSeq(trace, 1, HandshakeOps), "read", FALSE) = 2)
    /\ [](call_writes <= 1 /\ call_reads <= 1 /\ call_reads <= call_writes)
    /\ [](pc = "ready" => result # Pending \/ calls = 0)
    /\ [][pc = "failed" => trace' = trace]_vars
    /\ [][(pc = "ready" /\ trace' # trace) => FALSE]_vars

\* C28 witness: construction returned after two writes and two reads, and
\* a command call returned after one write and one read.
C28_Witness ==
    /\ new_result = "Ok"
    /\ pc = "ready"
    /\ calls = 1
    /\ result # Pending
    /\ Len(trace) = HandshakeOps + 2
    /\ call_writes = 1
    /\ call_reads = 1
    /\ result.kind = "InvalidResponse"

=============================================================================
